---- MODULE Spec2Model ----
(***************************************************************************)
(* git-wait: a wrapper that waits for .git/index.lock to disappear and     *)
(* then replaces itself with git (src/src/main.rs).                        *)
(*                                                                         *)
(* The wrapper is one sequential process; pc is its position in main.rs.   *)
(* The environment is the file system (the .git entries above the working  *)
(* directory, the lock file), the external actor that owns the lock file,  *)
(* the notify watcher that feeds the mpsc channel, and the clock.          *)
(***************************************************************************)
EXTENDS Integers, Sequences, FiniteSets, TLC

(***************************************************************************)
(* Bounds of the model.                                                    *)
(***************************************************************************)
\* deepest working directory of the directory search on its own:
\* / is depth 0, /d1 depth 1, /d1/d2 depth 2, ...
MaxDepth == 3
\* deepest working directory of a whole run of the wrapper
MaxRunDepth == 1
\* largest parsable GIT_WAIT_TIMEOUT_MS value, in clock ticks
MaxTimeout == 2
\* the clock stops after this many ticks spent in the receive loop
MaxTime == 4
\* most events buffered in the channel at once
MaxQueue == 2

(***************************************************************************)
(* Strings of the program.  Arguments are byte strings (sequences of byte  *)
(* values) because run_git_cmd converts them to C strings.                 *)
(***************************************************************************)
INDEX_LOCK_NAME == "index.lock"
GIT_DIR_NAME == ".git"

\* "git".to_string()
GitProgram == <<103, 105, 116>>
\* a null pointer, the terminator of the execvp argument array
NullPtr == <<>>

\* Option<T>
None == <<>>
Some(x) == <<x>>

\* Argument vectors the operating system hands to the wrapper (length >= 1,
\* no NUL byte inside an argument).
ArgVectors ==
    { << <<103, 119>> >>,                              \* gw
      << <<103, 119>>, <<99, 105>>, <<45, 109>> >> }   \* gw ci -m

(***************************************************************************)
(* The directory tree.  The working directory is a chain of directories    *)
(* below the root; fs[k] is the kind of the entry named .git in the        *)
(* directory at depth k.                                                   *)
(***************************************************************************)
DirName(k) == "d" \o ToString(k)
DirAt(k) == [i \in 1..k |-> DirName(i)]

\* "none": no entry; "dir": a directory (or a symlink to one); "file": a
\* regular file (a gitlink); "dangling": a symlink whose target is missing.
EntryKinds == {"none", "dir", "file", "dangling"}

(***************************************************************************)
(* Values of the environment variable GIT_WAIT_TIMEOUT_MS.                 *)
(***************************************************************************)
Digits == <<"0", "1", "2", "3", "4", "5", "6", "7", "8", "9">>
IsDigit(c) == \E i \in 1..Len(Digits) : Digits[i] = c
DigitVal(c) == (CHOOSE i \in 1..Len(Digits) : Digits[i] = c) - 1

\* text values: the decimal numbers 0..MaxTimeout and some that do not parse
EnvTexts ==
    { <<Digits[n + 1]>> : n \in 0..MaxTimeout }
        \cup { <<>>, <<"-", "1">>, <<"1", "s">> }

\* std::env::var: Err(NotPresent), Err(NotUnicode(_)) or Ok(text)
EnvValues ==
    { [kind |-> "unset", text |-> <<>>], [kind |-> "notunicode", text |-> <<>>] }
        \cup { [kind |-> "text", text |-> t] : t \in EnvTexts }

(***************************************************************************)
(* Events of the notify watcher.  The watch is on the lock path itself     *)
(* (non recursive), so every event delivered concerns that path.           *)
(***************************************************************************)
RemoveFile == "Remove(File)"
EventKinds == {RemoveFile, "Create(File)", "Modify(Data)", "Modify(Name)", "Access"}
\* kinds the watcher reports while the watched file stays where it is
NoiseKinds == {"Create(File)", "Modify(Data)", "Access"}

VARIABLES
    pc,          \* position of the wrapper
    origArgs,    \* the argument vector of the process (std::env::args)
    args,        \* the vector maybe_wait_for_index_lock works on
    cwd,         \* depth of the working directory
    cwdReadable, \* whether current_dir() succeeds
    fs,          \* fs[k]: kind of the .git entry of the directory at depth k
    envVal,      \* value of GIT_WAIT_TIMEOUT_MS
    dir,         \* the PathBuf of maybe_wait_for_index_lock
    timeout,     \* Option<Duration>, in ticks
    lockExists,  \* whether index.lock exists in the located .git directory
    watcher,     \* whether the RecommendedWatcher has been created
    watching,    \* whether the kernel watch on the lock file is alive
    subscribed,  \* whether watcher.watch returned Ok
    queue,       \* events sent on the channel and not yet received
    chanOpen,    \* whether the sending side of the channel is alive
    elapsed,     \* ticks spent in the receive loop
    sinceRecv,   \* ticks since the current recv_timeout call began
    out,         \* what was written to standard output
    err,         \* the error message main reports, "" if none
    execArgv,    \* the pointer array given to execvp, <<>> if not called
    offScript,   \* history: the lock was renamed away or re-created
    inst         \* inst[i]: the wait of the i-th of several wrappers at once

vars == <<pc, origArgs, args, cwd, cwdReadable, fs, envVal, dir, timeout,
          lockExists, watcher, watching, subscribed, queue, chanOpen,
          elapsed, sinceRecv, out, err, execArgv, offScript, inst>>


(***************************************************************************)
(* PathBuf operations and Path::exists.                                    *)
(***************************************************************************)
\* PathBuf::push / Path::join with a relative component
Push(p, name) == Append(p, name)

\* slip: pop drops two components at once
Pop_TwoLevels(p) ==
    IF p = <<>> THEN [ok |-> FALSE, path |-> p]
    ELSE [ok |-> TRUE, path |-> SubSeq(p, 1, Len(p) - 2)]

\* PathBuf::pop: false (and no change) when the path has no parent
Pop(p) ==
    IF p = <<>> THEN [ok |-> FALSE, path |-> p]
    ELSE [ok |-> TRUE, path |-> SubSeq(p, 1, Len(p) - 1)]

\* slip: only a directory counts as a .git entry
EntryExists_DirOnly(kind) == kind = "dir"

\* Path::exists follows symbolic links and answers false when the metadata
\* cannot be read: a dangling link does not exist.
EntryExists(kind) == kind \in {"dir", "file"}

IsDirPath(p) == p = DirAt(Len(p))

PathExists(p) ==
    IF IsDirPath(p) THEN Len(p) <= cwd
    ELSE IF Len(p) >= 1 /\ IsDirPath(Pop(p).path) /\ p[Len(p)] = GIT_DIR_NAME
        THEN Len(p) - 1 <= cwd /\ EntryExists(fs[Len(p) - 1])
    ELSE IF Len(p) >= 2 /\ IsDirPath(SubSeq(p, 1, Len(p) - 2))
            /\ p[Len(p) - 1] = GIT_DIR_NAME /\ p[Len(p)] = INDEX_LOCK_NAME
        THEN Len(p) - 2 <= cwd /\ fs[Len(p) - 2] = "dir" /\ lockExists
    ELSE FALSE

(***************************************************************************)
(* read_timeout_env_var: str::parse::<u64>.                                *)
(***************************************************************************)
RECURSIVE ParseDigits(_, _)
\* the digits of s, most significant first, added to acc; -1 on a non digit
ParseDigits(s, acc) ==
    IF s = <<>> THEN acc
    ELSE IF ~IsDigit(Head(s)) THEN -1
    ELSE ParseDigits(Tail(s), acc * 10 + DigitVal(Head(s)))

\* u64::from_str: empty is an error, one leading "+" is accepted, a "-" is an
\* invalid digit, every other character must be a decimal digit.
ParseU64(s) ==
    LET body == IF s # <<>> /\ Head(s) = "+" THEN Tail(s) ELSE s
        n == IF body = <<>> THEN -1 ELSE ParseDigits(body, 0)
    IN  IF n < 0 THEN [ok |-> FALSE, val |-> 0] ELSE [ok |-> TRUE, val |-> n]

\* the value read_timeout_env_var returns: Err (ok = FALSE) or Ok(timeout)
ReadTimeout(v) ==
    IF v.kind = "text"
    THEN LET r == ParseU64(v.text)
         IN  IF r.ok THEN [ok |-> TRUE, timeout |-> Some(r.val)]
             ELSE [ok |-> FALSE, timeout |-> None]
    ELSE [ok |-> TRUE, timeout |-> None]

(***************************************************************************)
(* run_git_cmd: CString conversion and the execvp argument array.          *)
(***************************************************************************)
HasNul(bytes) == \E i \in 1..Len(bytes) : bytes[i] = 0
\* CString::new(e.as_bytes()): the bytes followed by the terminating NUL
CStringNew(bytes) == Append(bytes, 0)
\* the pointer array: one C string per argument, then the null pointer
ArgPtrs(a) == Append([i \in 1..Len(a) |-> CStringNew(a[i])], NullPtr)

\* what the new program image sees: the bytes of a C string up to its NUL ...
CStrBytes(c) ==
    LET n == CHOOSE i \in 1..Len(c) : c[i] = 0 /\ \A j \in 1..(i - 1) : c[j] # 0
    IN  SubSeq(c, 1, n - 1)
\* ... for the entries of the array before the first null pointer
ExecvpArgs(ptrs) ==
    LET n == CHOOSE i \in 1..Len(ptrs) :
                 ptrs[i] = NullPtr /\ \A j \in 1..(i - 1) : ptrs[j] # NullPtr
    IN  [i \in 1..(n - 1) |-> CStrBytes(ptrs[i])]

(***************************************************************************)
(* wait: the test on a received event.                                     *)
(***************************************************************************)
Event(k) == [kind |-> k, path |-> "index.lock"]
\* slip: every event that is not a plain data change ends the wait
IsRemoveFile_AnyRemoveOrRename(event) == event.kind \in {RemoveFile, "Modify(Name)", "Create(File)"}

\* event.kind == EventKind::Remove(RemoveKind::File)
IsRemoveFile(event) == event.kind = RemoveFile
\* slip: the bounded receive gives up one tick early
RecvExpired_Early(since, t) == since + 1 >= t

\* recv_timeout(timeout) gives up once the call has lasted `timeout`
RecvExpired(since, t) == since >= t

(***************************************************************************)
(* Initial states: the process has just started.                           *)
(***************************************************************************)
\* depth of the nearest directory, from the working directory upwards, whose
\* .git entry Path::exists reports; -1 if there is none
NearestGit(d, tree) ==
    IF \E k \in 0..d : EntryExists(tree[k])
    THEN CHOOSE k \in 0..d :
             EntryExists(tree[k]) /\ \A j \in (k + 1)..d : ~EntryExists(tree[j])
    ELSE -1

\* index.lock can exist only inside a .git that is a directory
LockDirExists(d, tree) == NearestGit(d, tree) >= 0 /\ tree[NearestGit(d, tree)] = "dir"

\* the inputs: a working directory of depth at most maxDepth, the .git
\* entries at and above it, the arguments and the environment
Start(maxDepth) ==
    /\ pc = "main"
    /\ origArgs \in ArgVectors
    /\ args = <<>>
    /\ cwd \in 0..maxDepth
    /\ cwdReadable \in BOOLEAN
    /\ fs \in [0..maxDepth -> EntryKinds]
    /\ \A k \in 0..maxDepth : k > cwd => fs[k] = "none"
    /\ envVal \in EnvValues
    /\ dir = <<>>
    /\ timeout = None
    /\ lockExists \in (IF LockDirExists(cwd, fs) THEN BOOLEAN ELSE {FALSE})
    /\ watcher = FALSE
    /\ watching = FALSE
    /\ subscribed = FALSE
    /\ queue = <<>>
    /\ chanOpen = TRUE
    /\ elapsed = 0
    /\ sinceRecv = 0
    /\ out = <<>>
    /\ err = ""
    /\ execArgv = <<>>
    /\ offScript = FALSE

\* a run of one wrapper: no further instances
Init == Start(MaxRunDepth) /\ inst = <<>>

(***************************************************************************)
(* The wrapper.                                                            *)
(***************************************************************************)
\* process::exit(1) after eprintln!("ERROR: {}", e)
Fail(msg) == pc' = "exit1" /\ err' = msg

\* slip: argument 0 is passed on as it came
SetProgramName_Keep(a) == a

\* args[0] = "git".to_string()
SetProgramName(a) == [a EXCEPT ![1] = GitProgram]

\* main and the head of maybe_wait_for_index_lock: args[0] is replaced, then
\* the working directory is read.
Main ==
    /\ pc = "main"
    /\ args' = SetProgramName(origArgs)
    /\ IF cwdReadable
       THEN pc' = "traverse" /\ dir' = DirAt(cwd) /\ err' = err
       ELSE Fail("unable to read current directory.") /\ dir' = dir
    /\ UNCHANGED <<inst, origArgs, cwd, cwdReadable, fs, envVal, timeout, lockExists,
                   watcher, watching, subscribed, queue, chanOpen, elapsed,
                   sinceRecv, out, execArgv, offScript>>

\* One iteration of the loop of traverse_to_git_dir.  Returning true leads to
\* read_timeout_env_var, returning false to the handoff.
TraverseStep ==
    /\ pc = "traverse"
    /\ LET pushed == Push(dir, GIT_DIR_NAME)
           popped == Pop(pushed).path
           up == Pop(popped)
       IN  IF PathExists(pushed)
           THEN dir' = pushed /\ pc' = "read_timeout"
           ELSE IF ~up.ok
           THEN dir' = up.path /\ pc' = "exec"
           ELSE dir' = up.path /\ pc' = "traverse"
    /\ UNCHANGED <<inst, origArgs, args, cwd, cwdReadable, fs, envVal, timeout,
                   lockExists, watcher, watching, subscribed, queue, chanOpen,
                   elapsed, sinceRecv, out, err, execArgv, offScript>>

\* let timeout = read_timeout_env_var()?;
ReadTimeoutEnvVar ==
    /\ pc = "read_timeout"
    /\ LET r == ReadTimeout(envVal)
       IN  IF r.ok
           THEN pc' = "check" /\ timeout' = r.timeout /\ err' = err
           ELSE Fail("timeout parse error") /\ timeout' = timeout
    /\ UNCHANGED <<inst, origArgs, args, cwd, cwdReadable, fs, envVal, dir,
                   lockExists, watcher, watching, subscribed, queue, chanOpen,
                   elapsed, sinceRecv, out, execArgv, offScript>>

\* slip: the existence check looks at the .git entry instead of the lock
IndexLockPath_GitDir == dir

\* the path wait is called with
IndexLockPath == Push(dir, INDEX_LOCK_NAME)

\* if index_lock_path.exists() { print!("waiting on index.lock... "); wait(..)
CheckLock ==
    /\ pc = "check"
    /\ IF PathExists(IndexLockPath)
       THEN pc' = "watcher_new" /\ out' = Append(out, "waiting on index.lock... ")
       ELSE pc' = "exec" /\ out' = out
    /\ UNCHANGED <<inst, origArgs, args, cwd, cwdReadable, fs, envVal, dir, timeout,
                   lockExists, watcher, watching, subscribed, queue, chanOpen,
                   elapsed, sinceRecv, err, execArgv, offScript>>

\* wait returns: the watcher and the receiver are dropped
DropWatcher == watching' = FALSE /\ queue' = <<>>

\* wait returned Ok(()): println!("done!"); Ok(args)
WaitOk == pc' = "exec" /\ out' = Append(out, "done!") /\ err' = err /\ DropWatcher

\* slip: the error of wait is reported but the handoff goes ahead
WaitErr_Continue(msg) == pc' = "exec" /\ err' = msg /\ out' = out /\ DropWatcher

\* slip: "done!" is printed whatever wait returned
WaitErr_PrintsDone(msg) == Fail(msg) /\ out' = Append(out, "done!") /\ DropWatcher

\* wait returned Err(msg), which `?` and main turn into exit status 1
WaitErr(msg) == Fail(msg) /\ out' = out /\ DropWatcher

\* RecommendedWatcher::new(..).map_err(..)?
WatcherNew ==
    /\ pc = "watcher_new"
    /\ \/ /\ watcher' = TRUE
          /\ pc' = "watch"
          /\ UNCHANGED <<err, out, watching, queue>>
       \/ /\ WaitErr("unable to initialize file watcher")
          /\ watcher' = watcher
    /\ UNCHANGED <<inst, origArgs, args, cwd, cwdReadable, fs, envVal, dir, timeout,
                   lockExists, subscribed, chanOpen, elapsed, sinceRecv,
                   execArgv, offScript>>

\* slip: a missing path is reported like every other watch error
WatchPathNotFound_AsError == WaitErr("unable to watch index.lock: No path was found.")

\* ErrorKind::PathNotFound => Ok(()): index.lock no longer exists
WatchPathNotFound == WaitOk

\* watcher.watch(path, RecursiveMode::NonRecursive) and the match on its error
Watch ==
    /\ pc = "watch"
    /\ \/ /\ PathExists(IndexLockPath)
          /\ pc' = "recv"
          /\ watching' = TRUE
          /\ subscribed' = TRUE
          /\ UNCHANGED <<err, out, queue>>
       \/ /\ ~PathExists(IndexLockPath)
          /\ WatchPathNotFound
          /\ subscribed' = subscribed
       \/ /\ WaitErr("unable to watch index.lock: Io")
          /\ subscribed' = subscribed
    /\ UNCHANGED <<inst, origArgs, args, cwd, cwdReadable, fs, envVal, dir, timeout,
                   lockExists, watcher, chanOpen, elapsed, sinceRecv, execArgv,
                   offScript>>

\* rx.recv_timeout(timeout) / the iterator over &rx gives Ok(event)
RecvEvent ==
    /\ pc = "recv"
    /\ queue # <<>>
    /\ IF IsRemoveFile(Head(queue))
       THEN WaitOk /\ sinceRecv' = sinceRecv
       ELSE /\ queue' = Tail(queue)
            /\ sinceRecv' = 0          \* the next recv_timeout starts afresh
            /\ UNCHANGED <<pc, out, err, watching>>
    /\ UNCHANGED <<inst, origArgs, args, cwd, cwdReadable, fs, envVal, dir, timeout,
                   lockExists, watcher, subscribed, chanOpen, elapsed, execArgv,
                   offScript>>

\* slip: a timed-out wait clears the lock it takes for stale
RecvTimeout_RemovesLock ==
    /\ pc = "recv"
    /\ timeout # None
    /\ queue = <<>>
    /\ chanOpen
    /\ RecvExpired(sinceRecv, timeout[1])
    /\ WaitErr("timed out!")
    /\ lockExists' = FALSE
    /\ UNCHANGED <<inst, origArgs, args, cwd, cwdReadable, fs, envVal, dir, timeout,
                   watcher, subscribed, chanOpen, elapsed, sinceRecv,
                   execArgv, offScript>>

\* Err(RecvTimeoutError::Timeout)
RecvTimeout ==
    /\ pc = "recv"
    /\ timeout # None
    /\ queue = <<>>
    /\ chanOpen
    /\ RecvExpired(sinceRecv, timeout[1])
    /\ WaitErr("timed out!")
    /\ UNCHANGED <<inst, origArgs, args, cwd, cwdReadable, fs, envVal, dir, timeout,
                   lockExists, watcher, subscribed, chanOpen, elapsed, sinceRecv,
                   execArgv, offScript>>

\* slip: the end of the iterator over &rx is an error without a timeout too
RecvDisconnected_AlwaysErr ==
    /\ pc = "recv"
    /\ queue = <<>>
    /\ ~chanOpen
    /\ WaitErr("broken channel")
    /\ UNCHANGED <<inst, origArgs, args, cwd, cwdReadable, fs, envVal, dir, timeout,
                   lockExists, watcher, subscribed, chanOpen, elapsed, sinceRecv,
                   execArgv, offScript>>

\* The sender is gone and the channel is empty.  With a timeout this is
\* Err(RecvTimeoutError::Disconnected); without one the for loop over &rx
\* ends and the enclosing loop starts it again.
RecvDisconnected ==
    /\ pc = "recv"
    /\ queue = <<>>
    /\ ~chanOpen
    /\ IF timeout # None
       THEN WaitErr("broken channel")
       ELSE UNCHANGED <<pc, out, err, watching, queue>>
    /\ UNCHANGED <<inst, origArgs, args, cwd, cwdReadable, fs, envVal, dir, timeout,
                   lockExists, watcher, subscribed, chanOpen, elapsed, sinceRecv,
                   execArgv, offScript>>

\* run_git_cmd: execvp replaces the process image, or returns -1
RunGitCmd ==
    /\ pc = "exec"
    /\ IF \E i \in 1..Len(args) : HasNul(args[i])
       THEN Fail("invalid arg string") /\ execArgv' = execArgv
       ELSE /\ execArgv' = ArgPtrs(args)
            /\ \/ pc' = "git" /\ err' = err
               \/ Fail("error executing git")
    /\ UNCHANGED <<inst, origArgs, args, cwd, cwdReadable, fs, envVal, dir, timeout,
                   lockExists, watcher, watching, subscribed, queue, chanOpen,
                   elapsed, sinceRecv, out, offScript>>

(***************************************************************************)
(* The environment: the owner of the lock file, the watcher's thread and   *)
(* the clock.  What happens to the lock before the existence check is      *)
(* covered by the initial value of lockExists and by the steps taken while *)
(* the wrapper stands at the check.                                        *)
(***************************************************************************)
Observing == pc \in {"check", "watcher_new", "watch", "recv"}

\* the watcher's closure: tx.send(event) for an Ok(event)
Deliver(k) ==
    IF watching /\ chanOpen THEN queue' = Append(queue, Event(k)) ELSE queue' = queue

CanDeliver == (watching /\ chanOpen) => Len(queue) < MaxQueue

\* fs::remove_file(index.lock), as in the test: the watched file is deleted,
\* the watcher reports Remove(File) and the kernel drops the watch
UnlinkLock ==
    /\ Observing
    /\ lockExists
    /\ CanDeliver
    /\ lockExists' = FALSE
    /\ Deliver(RemoveFile)
    /\ watching' = FALSE
    /\ UNCHANGED <<inst, pc, origArgs, args, cwd, cwdReadable, fs, envVal, dir,
                   timeout, watcher, subscribed, chanOpen, elapsed, sinceRecv,
                   out, err, execArgv, offScript>>

\* rename(index.lock, index): the lock path is free again, the watched file
\* lives on under another name and the watcher reports Modify(Name)
RenameLock ==
    /\ Observing
    /\ lockExists
    /\ CanDeliver
    /\ lockExists' = FALSE
    /\ Deliver("Modify(Name)")
    /\ offScript' = TRUE
    /\ UNCHANGED <<inst, pc, origArgs, args, cwd, cwdReadable, fs, envVal, dir,
                   timeout, watcher, watching, subscribed, chanOpen, elapsed,
                   sinceRecv, out, err, execArgv>>

\* another process takes the lock: a new file, which no watch covers
CreateLock ==
    /\ Observing
    /\ ~lockExists
    /\ LockDirExists(cwd, fs)
    /\ lockExists' = TRUE
    /\ offScript' = TRUE
    /\ UNCHANGED <<inst, pc, origArgs, args, cwd, cwdReadable, fs, envVal, dir,
                   timeout, watcher, watching, subscribed, queue, chanOpen,
                   elapsed, sinceRecv, out, err, execArgv>>

\* any other event on the watched file
Noise ==
    /\ pc = "recv"
    /\ watching /\ chanOpen
    /\ Len(queue) < MaxQueue
    /\ \E k \in NoiseKinds : queue' = Append(queue, Event(k))
    /\ UNCHANGED <<inst, pc, origArgs, args, cwd, cwdReadable, fs, envVal, dir,
                   timeout, lockExists, watcher, watching, subscribed, chanOpen,
                   elapsed, sinceRecv, out, err, execArgv, offScript>>

\* the watcher's thread ends and drops the sender
ProducerExit ==
    /\ pc = "recv"
    /\ chanOpen
    /\ chanOpen' = FALSE
    /\ UNCHANGED <<inst, pc, origArgs, args, cwd, cwdReadable, fs, envVal, dir,
                   timeout, lockExists, watcher, watching, subscribed, queue,
                   elapsed, sinceRecv, out, err, execArgv, offScript>>

\* Time passes while recv_timeout blocks: the channel is empty, the sender
\* alive and the call not yet expired.
Tick ==
    /\ pc = "recv"
    /\ timeout # None
    /\ queue = <<>>
    /\ chanOpen
    /\ ~RecvExpired(sinceRecv, timeout[1])
    /\ elapsed < MaxTime
    /\ elapsed' = elapsed + 1
    /\ sinceRecv' = sinceRecv + 1
    /\ UNCHANGED <<inst, pc, origArgs, args, cwd, cwdReadable, fs, envVal, dir,
                   timeout, lockExists, watcher, watching, subscribed, queue,
                   chanOpen, out, err, execArgv, offScript>>

Wrapper ==
    \/ Main
    \/ TraverseStep
    \/ ReadTimeoutEnvVar
    \/ CheckLock
    \/ WatcherNew
    \/ Watch
    \/ RecvEvent
    \/ RecvTimeout
    \/ RecvDisconnected
    \/ RunGitCmd

Environment ==
    \/ UnlinkLock
    \/ RenameLock
    \/ CreateLock
    \/ Noise
    \/ ProducerExit
    \/ Tick

Next == Wrapper \/ Environment

Spec == Init /\ [][Next]_vars

\* The wrapper is a running process: it takes its next step whenever it has
\* one.  The clock advances while a bounded receive blocks.
FairSpec == Spec /\ WF_vars(Wrapper) /\ WF_vars(Tick)

\* The directory search on its own, from deeper working directories: the
\* run up to the return of traverse_to_git_dir.
InitLocate == Start(MaxDepth) /\ envVal.kind = "unset" /\ ~lockExists /\ inst = <<>>
NextLocate == Main \/ TraverseStep
SpecLocate == InitLocate /\ [][NextLocate]_vars

(***************************************************************************)
(* The receive loop on its own, fed with whatever a watcher backend may    *)
(* put on the channel: wait() reads rx and looks at event.kind only, so    *)
(* events of every kind and about every path are drawn here.               *)
(***************************************************************************)
\* notify::EventKind values: those above and the removal of a folder
AllEventKinds == EventKinds \cup {"Remove(Folder)"}
\* the watched path, and some other path
EventPaths == {"index.lock", "HEAD.lock"}
\* a notify::Event with its kind and its path
EventAt(k, p) == [kind |-> k, path |-> p]
\* every event but the report of the lock's own removal (UnlinkLock sends that)
StrayEvents ==
    { EventAt(k, p) : k \in AllEventKinds, p \in EventPaths } \ { Event(RemoveFile) }

\* the watcher's closure sends an event that is not the lock's removal
StrayEvent ==
    /\ pc = "recv"
    /\ watching /\ chanOpen
    /\ Len(queue) < MaxQueue
    /\ \E e \in StrayEvents : queue' = Append(queue, e)
    /\ UNCHANGED <<inst, pc, origArgs, args, cwd, cwdReadable, fs, envVal, dir,
                   timeout, lockExists, watcher, watching, subscribed, chanOpen,
                   elapsed, sinceRecv, out, err, execArgv, offScript>>

\* the state in which wait enters its loop: .git in the working directory,
\* the lock present, "waiting" printed, watcher created and watch added
InitRecv ==
    /\ pc = "recv"
    /\ origArgs \in ArgVectors
    /\ args = [origArgs EXCEPT ![1] = GitProgram]
    /\ cwd = 0
    /\ cwdReadable = TRUE
    /\ fs = [k \in 0..MaxRunDepth |-> IF k = 0 THEN "dir" ELSE "none"]
    /\ envVal \in { v \in EnvValues : ReadTimeout(v).ok }
    /\ dir = Push(DirAt(0), GIT_DIR_NAME)
    /\ timeout = ReadTimeout(envVal).timeout
    /\ lockExists = TRUE
    /\ watcher = TRUE
    /\ watching = TRUE
    /\ subscribed = TRUE
    /\ queue = <<>>
    /\ chanOpen = TRUE
    /\ elapsed = 0
    /\ sinceRecv = 0
    /\ out = <<"waiting on index.lock... ">>
    /\ err = ""
    /\ execArgv = <<>>
    /\ offScript = FALSE
    /\ inst = <<>>

NextRecv ==
    \/ RecvEvent
    \/ RecvTimeout
    \/ RecvDisconnected
    \/ StrayEvent
    \/ UnlinkLock
    \/ ProducerExit
    \/ Tick

SpecRecv == InitRecv /\ [][NextRecv]_vars

(***************************************************************************)
(* Several wrappers waiting on the same lock at once.  Each is a process   *)
(* of its own running wait(): its own channel, watcher and timeout         *)
(* (main.rs:108-154).  They share the lock file and nothing else.  The     *)
(* variables of the single run stay as they are in this specification.     *)
(***************************************************************************)
NumInstances == 2
Instances == 1..NumInstances
\* the timeout each process read from its own environment
InstTimeouts == {None, Some(1)}
\* the events that do not end a wait, by one of them
InstNoise == "Modify(Data)"

\* an instance entering wait(): mpsc::channel() made, nothing sent
InstStart(t) ==
    [pc |-> "watcher_new", timeout |-> t, watching |-> FALSE, chanOpen |-> TRUE,
     queue |-> <<>>, sinceRecv |-> 0, err |-> ""]

\* slip: one channel for all, as if rx were shared between the processes
RxOwner_Shared(i) == 1

\* the channel instance i receives from: the rx made by its own call
RxOwner(i) == i
Rx(i) == inst[RxOwner(i)]

\* wait of instance i returns: p is "ok" or "err"; watcher and rx are dropped
InstReturn(i, p, msg) ==
    inst' = [k \in Instances |->
               LET a == IF k = RxOwner(i) THEN [inst[k] EXCEPT !.queue = <<>>]
                        ELSE inst[k]
               IN  IF k = i THEN [a EXCEPT !.pc = p, !.err = msg, !.watching = FALSE]
                   ELSE a]

SingleRunVars ==
    <<pc, origArgs, args, cwd, cwdReadable, fs, envVal, dir, timeout, watcher,
      watching, subscribed, queue, chanOpen, elapsed, sinceRecv, out, err,
      execArgv, offScript>>

MWatcherNew(i) ==
    /\ inst[i].pc = "watcher_new"
    /\ \/ inst' = [inst EXCEPT ![i].pc = "watch"]
       \/ InstReturn(i, "err", "unable to initialize file watcher")
    /\ UNCHANGED <<lockExists, SingleRunVars>>

MWatch(i) ==
    /\ inst[i].pc = "watch"
    /\ \/ /\ lockExists
          /\ inst' = [inst EXCEPT ![i].pc = "recv", ![i].watching = TRUE]
       \/ /\ ~lockExists
          /\ InstReturn(i, "ok", "")
       \/ InstReturn(i, "err", "unable to watch index.lock: Io")
    /\ UNCHANGED <<lockExists, SingleRunVars>>

MRecvEvent(i) ==
    /\ inst[i].pc = "recv"
    /\ Rx(i).queue # <<>>
    /\ IF IsRemoveFile(Head(Rx(i).queue))
       THEN InstReturn(i, "ok", "")
       ELSE inst' = [k \in Instances |->
                       LET a == IF k = RxOwner(i)
                                THEN [inst[k] EXCEPT !.queue = Tail(@)]
                                ELSE inst[k]
                       IN  IF k = i THEN [a EXCEPT !.sinceRecv = 0] ELSE a]
    /\ UNCHANGED <<lockExists, SingleRunVars>>

MRecvTimeout(i) ==
    /\ inst[i].pc = "recv"
    /\ inst[i].timeout # None
    /\ Rx(i).queue = <<>>
    /\ Rx(i).chanOpen
    /\ RecvExpired(inst[i].sinceRecv, inst[i].timeout[1])
    /\ InstReturn(i, "err", "timed out!")
    /\ UNCHANGED <<lockExists, SingleRunVars>>

MRecvDisconnected(i) ==
    /\ inst[i].pc = "recv"
    /\ Rx(i).queue = <<>>
    /\ ~Rx(i).chanOpen
    /\ IF inst[i].timeout # None
       THEN InstReturn(i, "err", "broken channel")
       ELSE UNCHANGED inst
    /\ UNCHANGED <<lockExists, SingleRunVars>>

MWrapper(i) ==
    \/ MWatcherNew(i)
    \/ MWatch(i)
    \/ MRecvEvent(i)
    \/ MRecvTimeout(i)
    \/ MRecvDisconnected(i)

\* the lock is deleted: every live watch reports Remove(File) on its own
\* channel and is dropped by the kernel
MUnlinkLock ==
    /\ lockExists
    /\ \A k \in Instances :
          (inst[k].watching /\ inst[k].chanOpen) => Len(inst[k].queue) < MaxQueue
    /\ lockExists' = FALSE
    /\ inst' = [k \in Instances |->
                  IF inst[k].watching
                  THEN [inst[k] EXCEPT
                          !.watching = FALSE,
                          !.queue = IF inst[k].chanOpen
                                    THEN Append(@, Event(RemoveFile)) ELSE @]
                  ELSE inst[k]]
    /\ UNCHANGED SingleRunVars

MNoise(i) ==
    /\ inst[i].pc = "recv"
    /\ inst[i].watching /\ inst[i].chanOpen
    /\ Len(inst[i].queue) < MaxQueue
    /\ inst' = [inst EXCEPT ![i].queue = Append(@, Event(InstNoise))]
    /\ UNCHANGED <<lockExists, SingleRunVars>>

MProducerExit(i) ==
    /\ inst[i].pc = "recv"
    /\ inst[i].chanOpen
    /\ inst' = [inst EXCEPT ![i].chanOpen = FALSE]
    /\ UNCHANGED <<lockExists, SingleRunVars>>

MTick(i) ==
    /\ inst[i].pc = "recv"
    /\ inst[i].timeout # None
    /\ Rx(i).queue = <<>>
    /\ Rx(i).chanOpen
    /\ ~RecvExpired(inst[i].sinceRecv, inst[i].timeout[1])
    /\ inst' = [inst EXCEPT ![i].sinceRecv = @ + 1]
    /\ UNCHANGED <<lockExists, SingleRunVars>>

InitMulti ==
    /\ Start(0)
    /\ Len(origArgs) = 1
    /\ cwdReadable
    /\ fs[0] = "dir"
    /\ envVal.kind = "unset"
    /\ lockExists
    /\ inst \in [Instances -> { InstStart(t) : t \in InstTimeouts }]

NextMulti ==
    \/ \E i \in Instances : MWatcherNew(i)
    \/ \E i \in Instances : MWatch(i)
    \/ \E i \in Instances : MRecvEvent(i)
    \/ \E i \in Instances : MRecvTimeout(i)
    \/ \E i \in Instances : MRecvDisconnected(i)
    \/ \E i \in Instances : MNoise(i)
    \/ \E i \in Instances : MProducerExit(i)
    \/ \E i \in Instances : MTick(i)
    \/ MUnlinkLock

SpecMulti == InitMulti /\ [][NextMulti]_vars

\* every process keeps running, and its clock advances while it blocks
FairMulti ==
    SpecMulti /\ \A i \in Instances : WF_vars(MWrapper(i)) /\ WF_vars(MTick(i))

(***************************************************************************)
(* Properties.                                                             *)
(***************************************************************************)
WaitPcs == {"watcher_new", "watch", "recv"}
Waiting == "waiting on index.lock... "
Done == "done!"

\* C1: Having seen the lock at the existence check, the wrapper leaves the
\* wait with success only in a step where the lock is absent (the watch found
\* no path) or a Remove(File) event is taken from the channel; and a step
\* that takes a Remove(File) event from the channel always ends the wait with
\* success: "done!" is printed, no error is set and run_git_cmd is next.
C1_ReturnsExactlyOnRemoval ==
    [][ /\ (pc \in WaitPcs /\ pc' = "exec")
            => \/ ~lockExists
               \/ (pc = "recv" /\ queue # <<>> /\ Head(queue).kind = RemoveFile)
        /\ (pc = "recv" /\ queue # <<>> /\ Head(queue).kind = RemoveFile
              /\ (pc' # "recv" \/ Len(queue') < Len(queue)))
            => (pc' = "exec" /\ err' = "" /\ out' = <<Waiting, Done>>)
      ]_vars

\* C1 witness: the wait ended with success through the receive loop
C1_Witness ==
    pc = "exec" /\ subscribed /\ out = <<Waiting, Done>> /\ ~offScript

\* C2: The timeout error is reported only when at least the timeout D has
\* passed in the wait, and it is final: the process is at exit status 1 and
\* execvp was not called.
C2_TimeoutNotEarlyAndTerminal ==
    err = "timed out!"
        => /\ timeout # None
           /\ elapsed >= timeout[1]
           /\ pc = "exit1"
           /\ execArgv = <<>>
           /\ out = <<Waiting>>

\* C2 witness: a wait with timeout 2 on a lock nobody touched timed out
C2_Witness ==
    err = "timed out!" /\ timeout = Some(2) /\ lockExists /\ ~offScript /\ elapsed = 2

\* C3 (as claimed): with a timeout D and the lock untouched, the wrapper is
\* never still in the receive loop when more than D has passed in the wait.
C3_StrictDeadline ==
    (pc = "recv" /\ timeout # None /\ lockExists /\ ~offScript)
        => elapsed <= timeout[1]

\* C4: On the fast path (traverse_to_git_dir returns false, or the lock is
\* absent at the existence check) the step leads straight to run_git_cmd with
\* no watcher, no subscription and nothing printed, and from run_git_cmd on
\* no watcher is created and nothing is printed.
C4_FastPath ==
    [][ /\ ((pc = "traverse" /\ pc' \notin {"traverse", "read_timeout"})
              \/ (pc = "check" /\ pc' # "check" /\ ~lockExists))
            => /\ pc' = "exec"
               /\ ~watcher' /\ ~subscribed' /\ ~watching'
               /\ out' = <<>> /\ err' = ""
               /\ args' = args
        /\ (pc \in {"exec", "git", "exit1"})
            => UNCHANGED <<watcher, subscribed, watching, out>>
      ]_vars

\* C4 witness: a .git directory was found, the lock was absent, handoff is next
C4_Witness ==
    /\ pc = "exec" /\ out = <<>>
    /\ dir # <<>> /\ dir[Len(dir)] = GIT_DIR_NAME /\ fs[Len(dir) - 1] = "dir"

\* errors that stem from a failure of the environment, not from the lock
FaultErrs ==
    { "unable to read current directory.", "unable to initialize file watcher",
      "unable to watch index.lock: Io", "error executing git" }

\* C5: With no timeout configured, a working watcher and a lock that is only
\* ever deleted (not renamed, not re-created), the wrapper reports no error
\* of its own, and once the lock is gone it reaches run_git_cmd, wherever the
\* deletion falls among its steps.
C5_NoLostWakeup ==
    /\ []((envVal.kind = "unset" /\ ~offScript /\ chanOpen)
            => (err = "" \/ err \in FaultErrs))
    /\ (pc \in (WaitPcs \cup {"check"}) /\ timeout = None /\ ~lockExists
          /\ ~offScript /\ chanOpen)
         ~> (pc = "exec" \/ err \in FaultErrs \/ offScript \/ ~chanOpen)

\* C5 witness: the lock went away between the check and the subscription and
\* the wrapper went on to the handoff
C5_Witness ==
    /\ pc = "exec" /\ out = <<Waiting, Done>> /\ watcher /\ ~subscribed
    /\ envVal.kind = "unset" /\ ~offScript

\* C6 (as claimed): when the lock path is free while the wrapper is in the
\* receive loop with no timeout, the wrapper eventually reaches run_git_cmd
\* (unless the lock is taken again, the channel breaks or an error ends it).
C6_ProceedsOnceClear ==
    (pc = "recv" /\ timeout = None /\ ~lockExists /\ chanOpen)
        ~> (pc = "exec" \/ lockExists \/ ~chanOpen \/ err # "")

\* a value of the variable that is no non-negative integer
Malformed(v) ==
    \/ v.kind = "notunicode"
    \/ v.kind = "text" /\ v.text \notin { <<Digits[n]>> : n \in 1..Len(Digits) }

\* C7 (as claimed): with a malformed timeout value the wrapper never reaches
\* run_git_cmd, never creates a watcher, never treats the value as "no
\* timeout", and can end only with exit status 1.
C7_MalformedIsFatal ==
    Malformed(envVal)
        => /\ pc \notin {"check", "watcher_new", "watch", "recv", "exec", "git"}
           /\ ~watcher /\ ~subscribed
           /\ execArgv = <<>>

\* C8: The argument array given to execvp reads as the original vector with
\* element 0 replaced by "git" and the other elements unchanged.
C8_ArgsForwarded ==
    execArgv # <<>>
        => /\ Len(ExecvpArgs(execArgv)) = Len(origArgs)
           /\ ExecvpArgs(execArgv)[1] = <<103, 105, 116>>
           /\ \A i \in 2..Len(origArgs) : ExecvpArgs(execArgv)[i] = origArgs[i]

\* C8 witness: git was launched with three arguments after a wait
C8_Witness ==
    pc = "git" /\ Len(origArgs) = 3 /\ out = <<Waiting, Done>> /\ subscribed

ReturnedTrue ==
    pc \notin {"main", "traverse"} /\ dir # <<>> /\ dir[Len(dir)] = GIT_DIR_NAME
ReturnedFalse ==
    pc \notin {"main", "traverse"} /\ cwdReadable /\ ~ReturnedTrue

\* C10 (as claimed): true exactly when the start directory or an ancestor has
\* a .git entry of any kind, the path then being the .git entry of the
\* nearest such directory.
C10_AnyEntry ==
    LET has(k) == fs[k] # "none"
    IN  /\ ReturnedTrue =>
            \E k \in 0..cwd : /\ has(k) /\ \A j \in (k + 1)..cwd : ~has(j)
                              /\ dir = Append(DirAt(k), GIT_DIR_NAME)
        /\ ReturnedFalse => \A k \in 0..cwd : ~has(k)

\* C10 (amended): true exactly when the start directory or an ancestor has a
\* .git entry that Path::exists reports (a directory or a file, reached
\* through symbolic links; a dangling link does not count), the path then
\* being the .git entry of the nearest such directory.
C10_ExistingEntry ==
    LET has(k) == fs[k] \in {"dir", "file"}
    IN  /\ ReturnedTrue =>
            \E k \in 0..cwd : /\ has(k) /\ \A j \in (k + 1)..cwd : ~has(j)
                              /\ dir = Append(DirAt(k), GIT_DIR_NAME)
        /\ ReturnedFalse => \A k \in 0..cwd : ~has(k)

\* C10 witness: a gitlink file two levels up was found past a dangling link
C10_Witness ==
    /\ ReturnedTrue /\ cwd = 2 /\ dir = <<GIT_DIR_NAME>>
    /\ fs[0] = "file" /\ fs[2] = "dangling"

\* C12: A step that changes whether the lock file exists changes nothing of
\* the wrapper (its position, arguments, path, timeout, output, error, exec
\* arguments, watcher): it is a step of the external actor; so every step of
\* the wrapper leaves the lock file as it is.
C12_LockOnlyObserved ==
    [][ lockExists' # lockExists
          => UNCHANGED <<pc, args, dir, timeout, out, err, execArgv, watcher,
                         subscribed, chanOpen, elapsed, sinceRecv>>
      ]_vars

\* C12 witness: the wrapper checked, subscribed, waited and gave up, and the
\* lock nobody else touched is still there
C12_Witness ==
    pc = "exit1" /\ err = "broken channel" /\ subscribed /\ lockExists /\ ~offScript

\* errors wait returns
WaitErrs ==
    { "unable to initialize file watcher", "unable to watch index.lock: Io",
      "timed out!", "broken channel" }

\* C13: Nothing is printed before the existence check or on the fast path;
\* "waiting" is printed once, in the step that finds the lock and enters the
\* wait; "done!" is printed once, after "waiting", in the step in which wait
\* returns Ok and which leads to run_git_cmd; after a failed wait the output
\* is "waiting" alone.
C13_ProgressIndicator ==
    /\ [](/\ out \in {<<>>, <<Waiting>>, <<Waiting, Done>>}
          /\ pc \in {"main", "traverse", "read_timeout", "check"} => out = <<>>
          /\ pc \in WaitPcs => out = <<Waiting>>
          /\ pc \in {"exec", "git"} => out \in {<<>>, <<Waiting, Done>>}
          /\ err \in WaitErrs => out = <<Waiting>>
          /\ watcher => out # <<>>)
    /\ [][ out' # out
             => \/ /\ pc = "check" /\ lockExists /\ pc' = "watcher_new"
                   /\ out = <<>> /\ out' = <<Waiting>>
                \/ /\ pc \in {"watch", "recv"} /\ pc' = "exec" /\ err' = ""
                   /\ out = <<Waiting>> /\ out' = <<Waiting, Done>>
         ]_vars

\* C13 witness: both indicators were printed and the exec then failed
C13_Witness ==
    pc = "exit1" /\ err = "error executing git" /\ out = <<Waiting, Done>>

\* C15 (as claimed): once the sender is gone and the channel is empty while
\* the wrapper is in the receive loop, the wrapper ends with the broken
\* channel error at exit status 1, with or without a timeout.
C15_ClosedChannelFails ==
    (pc = "recv" /\ ~chanOpen /\ queue = <<>>)
        ~> (pc = "exit1" /\ err = "broken channel")

\* C16: With no timeout, the only step that takes the wrapper out of the
\* receive loop is the receipt of a Remove(File) event, and it ends the wait
\* with success; no error of the receive loop is ever reported.
C16_NoOtherExit ==
    /\ [](timeout = None => err \notin {"timed out!", "broken channel"})
    /\ [][ (pc = "recv" /\ timeout = None /\ pc' # "recv")
             => /\ queue # <<>> /\ Head(queue).kind = RemoveFile
                /\ pc' = "exec" /\ err' = ""
         ]_vars

\* C16 witness: the wrapper is still in the receive loop, without timeout,
\* after the sender went away and the channel was drained
C16_Witness ==
    /\ pc = "recv" /\ timeout = None /\ envVal.kind = "unset"
    /\ subscribed /\ lockExists /\ ~chanOpen /\ queue = <<>>

\* C17 (as claimed): with a malformed timeout value the wrapper does nothing
\* but exit: the working directory is not read, no .git entry or lock file is
\* looked for and no watcher is created.
C17_ValidatedFirst ==
    Malformed(envVal)
        => /\ pc \in {"main", "exit1"}
           /\ dir = <<>>
           /\ err \in {"", "timeout parse error"}

\* C18: While the search goes on the candidate is a directory at or above
\* the working directory; an iteration that does not return moves it exactly
\* one level up; at the root the iteration returns; and after "not found" the
\* path is the root.
C18_SearchClimbs ==
    /\ [](/\ pc = "traverse" => (Len(dir) <= cwd /\ dir = DirAt(Len(dir)))
          /\ ReturnedFalse => dir = <<>>)
    /\ [][ /\ (pc = "traverse" /\ pc' = "traverse")
               => (dir # <<>> /\ dir' = DirAt(Len(dir) - 1))
           /\ (pc = "traverse" /\ pc' = "exec") => (dir = <<>> /\ dir' = <<>>)
         ]_vars

\* C18 witness: the search climbed from depth 2 or more to the root and
\* returned false
C18_Witness ==
    ReturnedFalse /\ cwd >= 2 /\ dir = <<>> /\ pc = "exec"

C11_IndependentWaits ==
    /\ [](\A i \in Instances : inst[i].pc = "ok" => ~lockExists)
    /\ [][ \A i, j \in Instances :
             ( /\ i # j
               /\ \/ inst'[i].pc # inst[i].pc
                  \/ inst'[i].sinceRecv # inst[i].sinceRecv
                  \/ inst'[i].err # inst[i].err )
               => inst'[j] = inst[j]
         ]_vars
    /\ \A i \in Instances :
          ( /\ ~lockExists
            /\ inst[i].pc = "recv"
            /\ inst[i].timeout = None
            /\ inst[i].chanOpen )
            ~> (inst[i].pc = "ok")

\* C11 witness: after the one removal two instances have returned success
\* (and, with a timeout of its own, one of them could have timed out alone)
C11_Witness ==
    /\ ~lockExists
    /\ \E i, j \in Instances :
          /\ i # j
          /\ inst[i].pc = "ok" /\ inst[i].timeout = None
          /\ inst[j].pc = "ok" /\ inst[j].timeout = None

====
